---- MODULE Spec2Model ----
(***************************************************************************)
(* voice-runner: phrase -> script runner.                                  *)
(*   runner.py  normalize_phrase, best_match, run_script, handle_*         *)
(*   cli.py     repl (the interactive loop, main thread)                   *)
(*   voice.py   worker (the speech worker, daemon thread)                  *)
(* Phrases and paths are TLA+ strings; a character is a string of length 1.*)
(***************************************************************************)
EXTENDS FiniteSets, Integers, Naturals, Sequences, TLC

VARIABLES
    aliases,    \* the shared dict phrase -> path, in insertion order
    disk,       \* the content of CONFIG_PATH
    prog,       \* what each script file does when it is run
    pc,         \* per thread: position in repl / worker / handle_run / run_script
    phrase,     \* per thread: handle_run's local `phrase`
    bg,         \* per thread: handle_run's local `bg`
    bm,         \* per thread: handle_run's local `bm` (best_match's result)
    it,         \* speech worker, inside best_match: the dict iterator of the running loop
    ntk,        \* speech worker, inside best_match: norm_to_key
    cands,      \* speech worker, inside best_match: candidates
    cur,        \* per thread: run_script's local `proc` (index into procs, 0: none)
    last,       \* per thread: what the latest command or run request reported
    procs,      \* the child processes spawned so far, with their pipes and drain threads
    cmds,       \* commands the interactive loop will still read
    hears,      \* utterances the speech worker will still consume
    ints        \* interrupts the main thread will still receive

vars == <<aliases, disk, prog, pc, phrase, bg, bm, it, ntk, cands, cur, last, procs,
          cmds, hears, ints>>

(***************************************************************************)
(* Strings                                                                 *)
(***************************************************************************)
Ch(s, i) == SubSeq(s, i, i)

UpperChars == "ABCDEFGHIJKLMNOPQRSTUVWXYZ"
LowerChars == "abcdefghijklmnopqrstuvwxyz"
DigitChars == "0123456789_"

CharsOf(s) == {Ch(s, i) : i \in 1..Len(s)}

\* \w of the re module, on the ASCII range
WordCharSet == CharsOf(UpperChars) \cup CharsOf(LowerChars) \cup CharsOf(DigitChars)

\* \s of the re module and the characters str.strip() removes
SpaceCharSet == {" ", "\t"}

IsWordChar(c) == c \in WordCharSet

IsSpace(c) == c \in SpaceCharSet

UpperCharSet == CharsOf(UpperChars)

LowerChar(c) ==
    IF c \in UpperCharSet
    THEN Ch(LowerChars, CHOOSE i \in 1..Len(UpperChars) : Ch(UpperChars, i) = c)
    ELSE c

RECURSIVE lower(_)
lower(s) == IF s = "" THEN "" ELSE LowerChar(Ch(s, 1)) \o lower(Tail(s))

RECURSIVE lstrip(_)
lstrip(s) == IF s # "" /\ IsSpace(Ch(s, 1)) THEN lstrip(Tail(s)) ELSE s

RECURSIVE rstrip(_)
rstrip(s) ==
    IF s # "" /\ IsSpace(Ch(s, Len(s))) THEN rstrip(SubSeq(s, 1, Len(s) - 1)) ELSE s

strip(s) == rstrip(lstrip(s))

\* the first index >= i of s that holds no word character (Len(s) + 1 if none)
RECURSIVE WordRunEnd(_, _)
WordRunEnd(s, i) ==
    IF i <= Len(s) /\ IsWordChar(Ch(s, i)) THEN WordRunEnd(s, i + 1) ELSE i

\* a removal that matches the words anywhere, as the pattern without its \b
\* would: C14 tells it from lines 37-38
RECURSIVE re_sub_anywhere(_, _)
re_sub_anywhere(words, s) ==
    IF s = "" THEN ""
    ELSE IF \E w \in words : Len(w) <= Len(s) /\ SubSeq(s, 1, Len(w)) = w
    THEN LET w == CHOOSE x \in words : Len(x) <= Len(s) /\ SubSeq(s, 1, Len(x)) = x
         IN " " \o re_sub_anywhere(words, SubSeq(s, Len(w) + 1, Len(s)))
    ELSE Ch(s, 1) \o re_sub_anywhere(words, Tail(s))

\* re.sub(r"\b(w1|w2|...)\b", " ", s): a match starts and ends at a word
\* boundary and holds word characters only, so it is a maximal run of word
\* characters that equals one of the words.
RECURSIVE re_sub_words(_, _)
re_sub_words(words, s) ==
    IF s = "" THEN ""
    ELSE IF IsWordChar(Ch(s, 1))
    THEN LET e == WordRunEnd(s, 1)
             run == SubSeq(s, 1, e - 1)
         IN (IF run \in words THEN " " ELSE run)
            \o re_sub_words(words, SubSeq(s, e, Len(s)))
    ELSE Ch(s, 1) \o re_sub_words(words, Tail(s))

\* re.sub(r"\s+", " ", s)
RECURSIVE re_sub_spaces(_)
re_sub_spaces(s) ==
    IF s = "" THEN ""
    ELSE IF IsSpace(Ch(s, 1)) THEN " " \o re_sub_spaces(lstrip(s))
    ELSE Ch(s, 1) \o re_sub_spaces(Tail(s))

Articles == {"the", "a", "an"}

Fillers == {"program", "script", "app"}

normalize_phrase(p) ==
    LET p1 == lower(strip(p))
        p2 == re_sub_words(Articles, p1)
        p3 == re_sub_words(Fillers, p2)
    IN strip(re_sub_spaces(p3))

\* the first index >= i of s that holds a whitespace character
RECURSIVE TokenEnd(_, _)
TokenEnd(s, i) ==
    IF i <= Len(s) /\ ~IsSpace(Ch(s, i)) THEN TokenEnd(s, i + 1) ELSE i

\* set(s.split())
RECURSIVE split_set(_)
split_set(s) ==
    LET t == lstrip(s)
    IN IF t = "" THEN {}
       ELSE LET e == TokenEnd(t, 1)
            IN {SubSeq(t, 1, e - 1)} \cup split_set(SubSeq(t, e, Len(t)))

\* x in y, for strings
IsSubstr(x, y) ==
    \E i \in 0..(Len(y) - Len(x)) : SubSeq(y, i + 1, i + Len(x)) = x

(***************************************************************************)
(* The alias table: a Python dict, modelled as the sequence of its entries *)
(* [k |-> phrase, v |-> path] in insertion order.                          *)
(***************************************************************************)
Keys(d) == {d[i].k : i \in 1..Len(d)}

IndexOf(d, key) == CHOOSE i \in 1..Len(d) : d[i].k = key

\* d[key]
DictGet(d, key) == d[IndexOf(d, key)].v

\* d[key] = value: an existing key keeps its place, a new key goes last
DictSet(d, key, value) ==
    IF key \in Keys(d)
    THEN [d EXCEPT ![IndexOf(d, key)].v = value]
    ELSE Append(d, [k |-> key, v |-> value])

\* del d[key]
DictDel(d, key) ==
    LET i == IndexOf(d, key)
    IN SubSeq(d, 1, i - 1) \o SubSeq(d, i + 1, Len(d))

(***************************************************************************)
(* best_match (runner.py 43-75), one definition per loop body              *)
(***************************************************************************)
NoMatch == <<>>

\* line 49, one iteration of the comprehension: a later key with the same
\* normalized form overwrites the earlier one
norm_to_key_put(m, k) ==
    LET n == normalize_phrase(k)
    IN [x \in (DOMAIN m) \cup {n} |-> IF x = n THEN k ELSE m[x]]

\* lines 60-64, one iteration of the scoring loop
candidates_put(cs, tokens, k) ==
    LET norm_k == normalize_phrase(k)
        overlap == Cardinality(tokens \cap split_set(norm_k))
    IN IF overlap > 0 THEN Append(cs, <<overlap, Len(norm_k), k>>) ELSE cs

\* a sort key that prefers the longer phrase on a tie: C7 tells it from line 67
KeyGreaterLonger(a, b) == a[1] > b[1] \/ (a[1] = b[1] /\ a[2] > b[2])

\* line 67: key=(t[0], -t[1]); KeyGreater(a, b) is key(a) > key(b)
KeyGreater(a, b) == a[1] > b[1] \/ (a[1] = b[1] /\ (0 - a[2]) > (0 - b[2]))

\* list.sort(reverse=True) is stable: descending keys, and elements with
\* equal keys keep their original order
RECURSIVE sort_insert(_, _)
sort_insert(sorted, x) ==
    IF sorted = <<>> THEN <<x>>
    ELSE IF KeyGreater(x, Head(sorted)) THEN <<x>> \o sorted
    ELSE <<Head(sorted)>> \o sort_insert(Tail(sorted), x)

RECURSIVE sort_candidates(_)
sort_candidates(cs) ==
    IF cs = <<>> THEN <<>>
    ELSE sort_insert(sort_candidates(SubSeq(cs, 1, Len(cs) - 1)), cs[Len(cs)])

\* a test that looks one way only: C8 tells it from line 72
substring_hit_one_way(k, norm_raw) == IsSubstr(normalize_phrase(k), norm_raw)

\* line 72
substring_hit(k, norm_raw) ==
    IsSubstr(normalize_phrase(k), norm_raw) \/ IsSubstr(norm_raw, normalize_phrase(k))

RECURSIVE norm_to_key_of(_, _)
norm_to_key_of(d, n) ==
    IF n = 0 THEN <<>> ELSE norm_to_key_put(norm_to_key_of(d, n - 1), d[n].k)

RECURSIVE candidates_of(_, _, _)
candidates_of(d, tokens, n) ==
    IF n = 0 THEN <<>>
    ELSE candidates_put(candidates_of(d, tokens, n - 1), tokens, d[n].k)

\* a last tier that takes no empty string for a substring: C19 tells it from
\* lines 71-73
tier3_no_empty(d, norm_raw) ==
    LET hits == {i \in 1..Len(d) :
                    /\ norm_raw # "" /\ normalize_phrase(d[i].k) # ""
                    /\ substring_hit(d[i].k, norm_raw)}
    IN IF hits = {} THEN NoMatch
       ELSE LET i == CHOOSE j \in hits : \A h \in hits : j <= h
            IN <<d[i].k, d[i].v>>

\* lines 71-75: the first key, in insertion order, with the substring relation
tier3(d, norm_raw) ==
    LET hits == {i \in 1..Len(d) : substring_hit(d[i].k, norm_raw)}
    IN IF hits = {} THEN NoMatch
       ELSE LET i == CHOOSE j \in hits : \A h \in hits : j <= h
            IN <<d[i].k, d[i].v>>

\* lines 56-69, falling through to tier 3
tier2(d, norm_raw) ==
    LET cs == candidates_of(d, split_set(norm_raw), Len(d))
    IN IF cs # <<>>
       THEN LET key == sort_candidates(cs)[1][3] IN <<key, DictGet(d, key)>>
       ELSE tier3(d, norm_raw)

best_match(d, raw_phrase) ==
    IF d = <<>> THEN NoMatch
    ELSE LET m == norm_to_key_of(d, Len(d))
             norm_raw == normalize_phrase(raw_phrase)
         IN IF norm_raw \in DOMAIN m
            THEN <<m[norm_raw], DictGet(d, m[norm_raw])>>
            ELSE tier2(d, norm_raw)

(***************************************************************************)
(* Command parsing                                                         *)
(***************************************************************************)
StartsWith(s, pre) == Len(s) >= Len(pre) /\ SubSeq(s, 1, Len(pre)) = pre

EndsWith(s, suf) == Len(s) >= Len(suf) /\ SubSeq(s, Len(s) - Len(suf) + 1, Len(s)) = suf

\* s.removesuffix(suf)
removesuffix(s, suf) == IF EndsWith(s, suf) THEN SubSeq(s, 1, Len(s) - Len(suf)) ELSE s

QuoteChars == {"\"", "'"}

\* s.strip("\"'")
RECURSIVE strip_quotes(_)
strip_quotes(s) ==
    IF s # "" /\ Ch(s, 1) \in QuoteChars THEN strip_quotes(Tail(s))
    ELSE IF s # "" /\ Ch(s, Len(s)) \in QuoteChars
    THEN strip_quotes(SubSeq(s, 1, Len(s) - 1))
    ELSE s

\* runner.py 212-217; the result is [phrase, bg]
parse_run_command(user_input) ==
    LET s == strip(removesuffix(strip(user_input), "&"))
        m == Len(s) >= 4 /\ lower(SubSeq(s, 1, 3)) = "run" /\ IsSpace(Ch(s, 4))
        ph == IF m THEN lstrip(SubSeq(s, 4, Len(s))) ELSE s
    IN [phrase |-> strip_quotes(strip(ph)), bg |-> EndsWith(strip(user_input), "&")]

\* group 1 of r"\brun\s+(.+)$" matched at index i of text, or "" when the
\* pattern does not match there. \s+ takes all the whitespace and gives one
\* character back when nothing else follows.
voice_group_at(text, i) ==
    IF ~(/\ i + 3 <= Len(text)
         /\ SubSeq(text, i, i + 2) = "run"
         /\ (i = 1 \/ ~IsWordChar(Ch(text, i - 1)))
         /\ IsSpace(Ch(text, i + 3)))
    THEN ""
    ELSE LET after == SubSeq(text, i + 3, Len(text))
             rest == lstrip(after)
         IN IF rest # "" THEN rest
            ELSE IF Len(after) >= 2 THEN Ch(after, Len(after))
            ELSE ""

VoiceSuffixes == {"and", "ampersand", "background"}

\* re.sub(r"(and|ampersand|background)$", "", s): the leftmost match is the
\* longest of the words that ends s
voice_strip_suffix(s) ==
    LET ws == {w \in VoiceSuffixes : EndsWith(s, w)}
    IN IF ws = {} THEN s
       ELSE removesuffix(s, CHOOSE w \in ws : \A x \in ws : Len(x) <= Len(w))

\* voice.py 112-136: the string handed to handle_run, or "" when
\* _maybe_run_from_voice returns before calling it
voice_command(text) ==
    LET starts == {i \in 1..Len(text) : voice_group_at(text, i) # ""}
    IN IF starts = {} THEN ""
       ELSE LET i == CHOOSE j \in starts : \A h \in starts : j <= h
                phrase_raw == strip(voice_group_at(text, i))
                isbg == \E w \in VoiceSuffixes : EndsWith(phrase_raw, w)
            IN "run "
               \o (IF isbg THEN strip(voice_strip_suffix(phrase_raw)) ELSE phrase_raw)
               \o (IF isbg THEN " &" ELSE "")

\* cli.py 60-65: the string the repl hands to handle_run for a line whose
\* first word is "run" (lower-cased) or that starts with "run "
repl_run_rest(raw, cmd) == IF cmd = "run" THEN SubSeq(raw, 5, Len(raw)) ELSE raw

(***************************************************************************)
(* Paths                                                                   *)
(***************************************************************************)
Home == "/h"

Cwd == "/w"

\* Path(os.path.expanduser(path)).resolve(), for paths without "." and ".."
resolve_path(path) ==
    IF path = "~" THEN Home
    ELSE IF StartsWith(path, "~/") THEN Home \o SubSeq(path, 2, Len(path))
    ELSE IF StartsWith(path, "/") THEN path
    ELSE IF path = "" THEN Cwd
    ELSE Cwd \o "/" \o path

\* What the file system can hold at an absolute path when the program looks:
\* "file", "dir", "missing" (its directory exists) or "nodir" (its directory
\* does not exist either). Script files are created, deleted, moved and
\* replaced from outside at any time; the two directories stay, and the
\* empty path is the current directory.
KindsAt(path) ==
    IF path \in {Home, Cwd, ""} THEN {"dir"} ELSE {"file", "dir", "missing", "nodir"}

\* a validation without the test of line 82: C12 tells it from lines 80-83
ensure_python_script_any_kind(path, kind) ==
    IF kind \in {"missing", "nodir"} THEN "" ELSE resolve_path(path)

\* runner.py 78-89, with the kind of the resolved path at the time of the
\* call: the resolved path, or "" when it raises
ensure_python_script(path, kind) ==
    LET p == resolve_path(path)
    IN IF kind \in {"missing", "nodir"} THEN ""
       ELSE IF kind = "dir" THEN ""
       ELSE p

(***************************************************************************)
(* Bounds and input sets                                                   *)
(***************************************************************************)
MaxCmds == 2        \* commands the interactive loop reads

MaxRuns == 1        \* run requests the interactive loop reads when it reads nothing else

MaxVoiceCmds == 1   \* commands the interactive loop reads while the speech worker runs

MaxHeard == 1       \* utterances the speech worker consumes

MaxInts == 2        \* interrupts (Ctrl-C) delivered to the main thread

MaxLines == 2       \* lines a script writes

PipeCap == 1        \* lines the pipe holds before a writer blocks

Threads == {"main", "voice"}

\* the arguments of `map`
MapPhrases == {"backup", "Backup", "the app"}

MapPaths == {"~/a.py", "/h/b.py", "/h"}

\* the lines typed at the prompts of `map` without arguments
PromptPhrases == {"", " backup ", "the app"}

PromptPaths == {"", "~/a.py ", "/h"}

PathKinds == {"file", "dir", "missing", "nodir"}

\* the argument of `unmap`
UnmapPhrases == {"backup", "the backup", "zzz"}

\* lines of the interactive loop that run a script
RunLines == {"run backup", "run Backup &", "run the app", "run zzz", "run"}

\* what the speech engine hears
Utterances == {"please run the backup", "run backup and", "run band", "hello"}

Entry(key, value) == [k |-> key, v |-> value]

\* the content of CONFIG_PATH at startup: no file, a file json.loads refuses,
\* or a JSON object, whose values load_config takes as they are (line 19)
InitDisks ==
    { [st |-> "absent", data |-> <<>>],
      [st |-> "corrupt", data |-> <<>>],
      [st |-> "ok", data |-> <<>>],
      [st |-> "ok", data |-> <<Entry("backup", "/h/a.py")>>],
      [st |-> "ok", data |-> <<Entry("backup", "")>>],
      [st |-> "ok", data |-> <<Entry("Backup", "/h/a.py"), Entry("backup", "/h/b.py")>>] }

(***************************************************************************)
(* The persisted store (runner.py 15-32)                                   *)
(***************************************************************************)
load_config(d) == IF d.st = "ok" THEN d.data ELSE <<>>

save_config(d) == [st |-> "ok", data |-> d]

(***************************************************************************)
(* Child processes                                                         *)
(***************************************************************************)
ExitCodes == {0, 7}

\* what a script does: the lines it writes, the code it exits with, whether
\* it ignores SIGINT, whether it ever exits on its own
Behaviours ==
    {b \in [lines : 0..MaxLines, code : ExitCodes, ignores : BOOLEAN, halts : BOOLEAN] :
        ~b.halts => b.code = 0}

\* the interpreter started on a path that is no file: one line of error
\* output, exit code 2 for a missing path and 1 for a directory
InterpreterFails(kind) ==
    [lines |-> 1, code |-> IF kind = "dir" THEN 1 ELSE 2, ignores |-> FALSE, halts |-> TRUE]

\* a script that prints a line and ends
QuickScript == [lines |-> 1, code |-> 0, ignores |-> FALSE, halts |-> TRUE]

ScriptPaths == {"/h/a.py", "/h/b.py"}

\* the scripts of one run of the program: any behaviour for the first, the
\* quick script for the others
Progs == {[p \in ScriptPaths |-> IF p = "/h/a.py" THEN b ELSE QuickScript] : b \in Behaviours}

BehaviourOf(path, kind) == IF kind = "file" THEN prog[path] ELSE InterpreterFails(kind)

SigIntCode == 0 - 2

SigKillCode == 0 - 9

NewChild(t, script, kind, attach, b) ==
    [ path |-> script,
      kind |-> kind,          \* what was at the path when the child was spawned
      mode |-> IF attach THEN "attached" ELSE "detached",
      owner |-> t,
      beh |-> b,
      st |-> "running",       \* running, exited (not waited for yet), reaped
      code |-> 0,             \* the exit status, once st # "running"
      todo |-> b.lines,       \* lines still to write
      pipe |-> <<>>,          \* lines written and not read yet
      emitted |-> <<>>,       \* lines the drain thread has printed
      drain |-> "none",       \* the drain thread: none, running, done
      sigint |-> FALSE,       \* the supervisor sent SIGINT
      killed |-> FALSE,       \* the supervisor sent SIGKILL
      intr |-> FALSE,         \* an interrupt arrived during this launch
      rep |-> "none",         \* the completion line: none, ok, err
      ret |-> <<>> ]          \* <<what run_script returned>>

NoIter == [pos |-> 0, used |-> 0, dead |-> 0]

Alive == pc["main"] \notin {"exited", "crashed"}

\* cli.py 102-112: the state when repl starts; the speech worker runs only
\* when --voice was given and the model loaded
InitWith(voice, disks, progs, ncmds, nhears, nints) ==
    /\ disk \in disks
    /\ aliases = load_config(disk)
    /\ prog \in progs
    /\ pc = [t \in Threads |-> IF t = "voice" /\ ~voice THEN "off" ELSE "idle"]
    /\ phrase = [t \in Threads |-> ""]
    /\ bg = [t \in Threads |-> FALSE]
    /\ bm = [t \in Threads |-> NoMatch]
    /\ it = NoIter
    /\ ntk = <<>>
    /\ cands = <<>>
    /\ cur = [t \in Threads |-> 0]
    /\ last = [t \in Threads |-> "none"]
    /\ procs = <<>>
    /\ cmds = ncmds
    /\ hears = nhears
    /\ ints = nints

QuickProgs == {[p \in ScriptPaths |-> QuickScript]}

\* without --voice, any store, quick scripts
Init == InitWith(FALSE, InitDisks, QuickProgs, MaxCmds, 0, MaxInts)

\* without --voice, one alias, any script
SupDisks == {[st |-> "ok", data |-> <<Entry("Backup", "/h/a.py")>>]}

InitSup == InitWith(FALSE, SupDisks, Progs, MaxRuns, 0, MaxInts)

\* with --voice, any store, quick scripts, no interrupts
InitVoice == InitWith(TRUE, InitDisks, QuickProgs, MaxVoiceCmds, MaxHeard, 0)

(***************************************************************************)
(* The dict iterator of a loop of best_match running in the speech worker. *)
(* pos counts the live entries before the iterator's slot, used is the     *)
(* dict's size when the loop started, dead counts the deleted entries      *)
(* before the slot: a deleted entry keeps its slot until an insertion      *)
(* resizes the dict, which packs the entries.                              *)
(***************************************************************************)
Iterating == pc["voice"] \in {"loop1", "loop2", "loop3"}

NewIter(d) == [pos |-> 0, used |-> Len(d), dead |-> 0]

IterAfterDel(i, idx) ==
    IF Iterating /\ idx <= i.pos
    THEN [i EXCEPT !.pos = i.pos - 1, !.dead = i.dead + 1]
    ELSE i

IterAfterInsert(i, resized) ==
    IF Iterating /\ resized
    THEN [i EXCEPT !.pos = i.pos + i.dead, !.dead = 0]
    ELSE i

\* the outcomes an insertion can have for the running iterator
ResizeChoices(key) ==
    IF Iterating /\ it.dead > 0 /\ key \notin Keys(aliases) THEN BOOLEAN ELSE {FALSE}

(***************************************************************************)
(* The interactive loop (cli.py 29-67) and its handlers                    *)
(***************************************************************************)
ReadCmd ==
    /\ Alive
    /\ pc["main"] = "idle"
    /\ cmds > 0
    /\ cmds' = cmds - 1

\* a registration that leaves the saving to a later moment: C20 tells it from
\* lines 178-179
map_register_unsaved(p, path, kind) ==
    LET real == ensure_python_script(path, kind)
    IN IF real = ""
       THEN /\ last' = [last EXCEPT !["main"] = "maperr"]
            /\ UNCHANGED <<aliases, disk, it>>
       ELSE \E resized \in ResizeChoices(p) :
              /\ aliases' = DictSet(aliases, p, real)
              /\ it' = IterAfterInsert(it, resized)
              /\ last' = [last EXCEPT !["main"] = "mapped"]
              /\ UNCHANGED disk

\* runner.py 154-161 and 173-180: validate the path, register, save, report
map_register(p, path, kind) ==
    LET real == ensure_python_script(path, kind)
    IN IF real = ""
       THEN /\ last' = [last EXCEPT !["main"] = "maperr"]
            /\ UNCHANGED <<aliases, disk, it>>
       ELSE \E resized \in ResizeChoices(p) :
              /\ aliases' = DictSet(aliases, p, real)
              /\ disk' = save_config(aliases')
              /\ it' = IterAfterInsert(it, resized)
              /\ last' = [last EXCEPT !["main"] = "mapped"]

\* handle_map (runner.py 164-180), two arguments, with what the file system
\* holds at the resolved path
CmdMapKind(p, path, kind) ==
    /\ ReadCmd
    /\ kind \in KindsAt(resolve_path(path))
    /\ map_register(p, path, kind)
    /\ UNCHANGED <<prog, pc, phrase, bg, bm, ntk, cands, cur, procs, hears, ints>>

CmdMap(p, path) == \E kind \in KindsAt(resolve_path(path)) : CmdMapKind(p, path, kind)

\* handle_map with one argument (runner.py 168-170)
CmdMapUsage ==
    /\ ReadCmd
    /\ last' = [last EXCEPT !["main"] = "mapusage"]
    /\ UNCHANGED <<aliases, disk, prog, pc, phrase, bg, bm, it, ntk, cands, cur, procs,
                   hears, ints>>

\* handle_map without arguments: interactive_map (runner.py 148-161) with the
\* two lines typed at its prompts
interactive_map(line1, line2, kind) ==
    /\ ReadCmd
    /\ LET p == strip(line1)
           path == strip(line2)
       IN IF p = "" \/ path = ""
          THEN /\ last' = [last EXCEPT !["main"] = "required"]
               /\ UNCHANGED <<aliases, disk, it>>
          ELSE /\ kind \in KindsAt(resolve_path(path))
               /\ map_register(p, path, kind)
    /\ UNCHANGED <<prog, pc, phrase, bg, bm, ntk, cands, cur, procs, hears, ints>>

\* an unmap that asks the matcher first: C13 tells it from lines 188-192
CmdUnmapMatcherFirst(p) ==
    /\ ReadCmd
    /\ LET r == best_match(aliases, p)
       IN IF r # NoMatch
          THEN /\ aliases' = DictDel(aliases, r[1])
               /\ disk' = save_config(aliases')
               /\ it' = IterAfterDel(it, IndexOf(aliases, r[1]))
               /\ last' = [last EXCEPT !["main"] = "unmapped"]
          ELSE /\ last' = [last EXCEPT !["main"] = "unmapmiss"]
               /\ UNCHANGED <<aliases, disk, it>>
    /\ UNCHANGED <<prog, pc, phrase, bg, bm, ntk, cands, cur, procs, hears, ints>>

\* handle_unmap (runner.py 183-200), one argument
CmdUnmap(p) ==
    /\ ReadCmd
    /\ LET key == IF p \in Keys(aliases) THEN p
                  ELSE IF best_match(aliases, p) # NoMatch THEN best_match(aliases, p)[1]
                  ELSE ""
           found == p \in Keys(aliases) \/ best_match(aliases, p) # NoMatch
       IN IF found
          THEN /\ aliases' = DictDel(aliases, key)
               /\ disk' = save_config(aliases')
               /\ it' = IterAfterDel(it, IndexOf(aliases, key))
               /\ last' = [last EXCEPT !["main"] = "unmapped"]
          ELSE /\ last' = [last EXCEPT !["main"] = "unmapmiss"]
               /\ UNCHANGED <<aliases, disk, it>>
    /\ UNCHANGED <<prog, pc, phrase, bg, bm, ntk, cands, cur, procs, hears, ints>>

\* handle_run (runner.py 220-224), up to the call of best_match
handle_run_parse(t, rest) ==
    LET r == parse_run_command(rest)
    IN IF r.phrase = ""
       THEN /\ last' = [last EXCEPT ![t] = "usage"]
            /\ UNCHANGED <<pc, phrase, bg>>
       ELSE /\ pc' = [pc EXCEPT ![t] = "bm"]
            /\ phrase' = [phrase EXCEPT ![t] = r.phrase]
            /\ bg' = [bg EXCEPT ![t] = r.bg]
            /\ last' = [last EXCEPT ![t] = "none"]

\* cli.py 60-62
CmdRun(raw) ==
    /\ ReadCmd
    /\ LET cmd == lower(SubSeq(raw, 1, TokenEnd(raw, 1) - 1))
       IN /\ cmd = "run" \/ StartsWith(lower(raw), "run ")
          /\ handle_run_parse("main", repl_run_rest(raw, cmd))
    /\ UNCHANGED <<aliases, disk, prog, bm, it, ntk, cands, cur, procs, hears, ints>>

\* a resolution that moves the entry it found to the end of the table, as a
\* most-recently-used order would: C15 tells it from lines 225-233
ResolveAndTouch(t) ==
    /\ Alive
    /\ t = "main"
    /\ pc[t] = "bm"
    /\ bm' = [bm EXCEPT ![t] = best_match(aliases, phrase[t])]
    /\ IF bm'[t] = NoMatch
       THEN /\ pc' = [pc EXCEPT ![t] = "idle"]
            /\ last' = [last EXCEPT ![t] = "miss"]
            /\ UNCHANGED aliases
       ELSE /\ pc' = [pc EXCEPT ![t] = "popen"]
            /\ aliases' = Append(DictDel(aliases, bm'[t][1]),
                                 Entry(bm'[t][1], bm'[t][2]))
            /\ UNCHANGED last
    /\ UNCHANGED <<disk, prog, phrase, bg, it, ntk, cands, cur, procs, cmds, hears, ints>>

\* runner.py 225-233 on the main thread, the only thread that changes the
\* dict: nothing can change it while this best_match runs
Resolve(t) ==
    /\ Alive
    /\ t = "main"
    /\ pc[t] = "bm"
    /\ bm' = [bm EXCEPT ![t] = best_match(aliases, phrase[t])]
    /\ IF bm'[t] = NoMatch
       THEN /\ pc' = [pc EXCEPT ![t] = "idle"]
            /\ last' = [last EXCEPT ![t] = "miss"]
       ELSE /\ pc' = [pc EXCEPT ![t] = "popen"]
            /\ UNCHANGED last
    /\ UNCHANGED <<aliases, disk, prog, phrase, bg, it, ntk, cands, cur, procs,
                   cmds, hears, ints>>

(***************************************************************************)
(* The speech worker (voice.py 75-105) and best_match as it runs there,    *)
(* one dict iteration per step, while the main thread may change the dict  *)
(***************************************************************************)
VoiceAt(l) == Alive /\ pc["voice"] = l

\* voice.py 90-97 and 112-137, runner.py 220-224
VoiceHear(text) ==
    /\ VoiceAt("idle")
    /\ hears > 0
    /\ hears' = hears - 1
    /\ IF voice_command(text) = ""
       THEN UNCHANGED <<pc, phrase, bg, last>>
       ELSE handle_run_parse("voice", voice_command(text))
    /\ UNCHANGED <<aliases, disk, prog, bm, it, ntk, cands, cur, procs, cmds, ints>>

\* an exception leaves handle_run and the worker's loop (voice.py 104-105)
VoiceRaise ==
    /\ pc' = [pc EXCEPT !["voice"] = "dead"]
    /\ it' = NoIter
    /\ ntk' = <<>>
    /\ cands' = <<>>
    /\ UNCHANGED <<bm, last>>

\* best_match returns r to handle_run (runner.py 225-233)
VoiceResolved(r) ==
    /\ bm' = [bm EXCEPT !["voice"] = r]
    /\ it' = NoIter
    /\ ntk' = <<>>
    /\ cands' = <<>>
    /\ IF r = NoMatch
       THEN /\ pc' = [pc EXCEPT !["voice"] = "idle"]
            /\ last' = [last EXCEPT !["voice"] = "miss"]
       ELSE /\ pc' = [pc EXCEPT !["voice"] = "popen"]
            /\ UNCHANGED last

\* return key, aliases[key]: a key deleted meanwhile raises KeyError
VoiceReturnKey(key) ==
    IF key \in Keys(aliases) THEN VoiceResolved(<<key, DictGet(aliases, key)>>)
    ELSE VoiceRaise

\* the dict iterator's next(): "changed", "stop" or "key"
IterNext ==
    IF Len(aliases) # it.used THEN "changed"
    ELSE IF it.pos >= Len(aliases) THEN "stop"
    ELSE "key"

IterKey == aliases[it.pos + 1].k

\* runner.py 47-49: the empty-table test and the iterator of the comprehension
BmStart ==
    /\ VoiceAt("bm")
    /\ IF aliases = <<>>
       THEN VoiceResolved(NoMatch)
       ELSE /\ pc' = [pc EXCEPT !["voice"] = "loop1"]
            /\ it' = NewIter(aliases)
            /\ UNCHANGED <<bm, ntk, cands, last>>
    /\ UNCHANGED <<aliases, disk, prog, phrase, bg, cur, procs, cmds, hears, ints>>

\* runner.py 49, one iteration; at its end lines 50-59
BmLoop1 ==
    /\ VoiceAt("loop1")
    /\ LET norm_raw == normalize_phrase(phrase["voice"])
       IN CASE IterNext = "changed" -> VoiceRaise
            [] IterNext = "key" ->
                 /\ ntk' = norm_to_key_put(ntk, IterKey)
                 /\ it' = [it EXCEPT !.pos = it.pos + 1]
                 /\ UNCHANGED <<pc, bm, cands, last>>
            [] IterNext = "stop" /\ norm_raw \in DOMAIN ntk -> VoiceReturnKey(ntk[norm_raw])
            [] IterNext = "stop" /\ norm_raw \notin DOMAIN ntk ->
                 /\ pc' = [pc EXCEPT !["voice"] = "loop2"]
                 /\ it' = NewIter(aliases)
                 /\ UNCHANGED <<bm, ntk, cands, last>>
    /\ UNCHANGED <<aliases, disk, prog, phrase, bg, cur, procs, cmds, hears, ints>>

\* runner.py 59-64, one iteration; at its end lines 66-71
BmLoop2 ==
    /\ VoiceAt("loop2")
    /\ LET tokens == split_set(normalize_phrase(phrase["voice"]))
       IN CASE IterNext = "changed" -> VoiceRaise
            [] IterNext = "key" ->
                 /\ cands' = candidates_put(cands, tokens, IterKey)
                 /\ it' = [it EXCEPT !.pos = it.pos + 1]
                 /\ UNCHANGED <<pc, bm, ntk, last>>
            [] IterNext = "stop" /\ cands # <<>> ->
                 VoiceReturnKey(sort_candidates(cands)[1][3])
            [] IterNext = "stop" /\ cands = <<>> ->
                 /\ pc' = [pc EXCEPT !["voice"] = "loop3"]
                 /\ it' = NewIter(aliases)
                 /\ UNCHANGED <<bm, ntk, cands, last>>
    /\ UNCHANGED <<aliases, disk, prog, phrase, bg, cur, procs, cmds, hears, ints>>

\* runner.py 71-75, one iteration
BmLoop3 ==
    /\ VoiceAt("loop3")
    /\ CASE IterNext = "changed" -> VoiceRaise
         [] IterNext = "stop" -> VoiceResolved(NoMatch)
         [] IterNext = "key" /\ substring_hit(IterKey, normalize_phrase(phrase["voice"])) ->
              VoiceReturnKey(IterKey)
         [] IterNext = "key" /\ ~substring_hit(IterKey, normalize_phrase(phrase["voice"])) ->
              /\ it' = [it EXCEPT !.pos = it.pos + 1]
              /\ UNCHANGED <<pc, bm, ntk, cands, last>>
    /\ UNCHANGED <<aliases, disk, prog, phrase, bg, cur, procs, cmds, hears, ints>>

(***************************************************************************)
(* run_script (runner.py 101-145) as handle_run calls it (234-239)         *)
(***************************************************************************)
At(t, l) == Alive /\ pc[t] = l

Proc(t) == procs[cur[t]]

\* handle_run is over for thread t
EndRequest(t, outcome) ==
    /\ pc' = [pc EXCEPT ![t] = "idle"]
    /\ last' = [last EXCEPT ![t] = outcome]
    /\ cur' = [cur EXCEPT ![t] = 0]
    /\ bm' = [bm EXCEPT ![t] = NoMatch]

\* run_script returns the child's code to handle_run
ReturnCode(t) ==
    /\ procs' = [procs EXCEPT ![cur[t]].st = "reaped", ![cur[t]].ret = <<Proc(t).code>>]
    /\ EndRequest(t, "exit")

\* lines 102-107 and 140-143: Popen. A missing working directory raises
\* FileNotFoundError (handle_run 236-237), any other refusal of the OS an
\* OSError (238-239); a path that is no file any more is not looked at.
Popen(t) ==
    /\ At(t, "popen")
    /\ \E kind \in KindsAt(bm[t][2]) :
         IF kind = "nodir"
         THEN /\ EndRequest(t, "notfound")
              /\ UNCHANGED procs
         ELSE \/ /\ EndRequest(t, "failed")
                 /\ UNCHANGED procs
              \/ /\ procs' = Append(procs, NewChild(t, bm[t][2], kind, ~bg[t],
                                                    BehaviourOf(bm[t][2], kind)))
                 /\ cur' = [cur EXCEPT ![t] = Len(procs) + 1]
                 /\ pc' = [pc EXCEPT ![t] = IF bg[t] THEN "bgret" ELSE "start"]
                 /\ UNCHANGED <<last, bm>>
    /\ UNCHANGED <<aliases, disk, prog, phrase, bg, it, ntk, cands, cmds, hears, ints>>

\* lines 144-145
BgReturn(t) ==
    /\ At(t, "bgret")
    /\ procs' = [procs EXCEPT ![cur[t]].ret = <<cur[t]>>]
    /\ EndRequest(t, "bg")
    /\ UNCHANGED <<aliases, disk, prog, phrase, bg, it, ntk, cands, cmds, hears, ints>>

\* lines 108-109
StartDrain(t) ==
    /\ At(t, "start")
    /\ procs' = [procs EXCEPT ![cur[t]].drain = "running"]
    /\ pc' = [pc EXCEPT ![t] = "wait"]
    /\ UNCHANGED <<aliases, disk, prog, phrase, bg, bm, it, ntk, cands, cur, last,
                   cmds, hears, ints>>

\* line 111: proc.wait() returns once the child has exited
Wait(t) ==
    /\ At(t, "wait")
    /\ Proc(t).st = "exited"
    /\ procs' = [procs EXCEPT ![cur[t]].st = "reaped"]
    /\ pc' = [pc EXCEPT ![t] = "join"]
    /\ UNCHANGED <<aliases, disk, prog, phrase, bg, bm, it, ntk, cands, cur, last,
                   cmds, hears, ints>>

\* line 112: t.join(timeout=0.5) returns when the drain thread has ended
Join(t) ==
    /\ At(t, "join")
    /\ Proc(t).drain = "done"
    /\ pc' = [pc EXCEPT ![t] = "report"]
    /\ UNCHANGED <<aliases, disk, prog, phrase, bg, bm, it, ntk, cands, cur, last,
                   cmds, hears, ints, procs>>

\* line 112: ... or when the timeout has passed
JoinTimeout(t) ==
    /\ At(t, "join")
    /\ Proc(t).drain # "done"
    /\ pc' = [pc EXCEPT ![t] = "report"]
    /\ UNCHANGED <<aliases, disk, prog, phrase, bg, bm, it, ntk, cands, cur, last,
                   cmds, hears, ints, procs>>

\* lines 113-121
Report(t) ==
    /\ At(t, "report")
    /\ procs' = [procs EXCEPT ![cur[t]].rep = IF Proc(t).code = 0 THEN "ok" ELSE "err",
                              ![cur[t]].ret = <<Proc(t).code>>]
    /\ EndRequest(t, "exit")
    /\ UNCHANGED <<aliases, disk, prog, phrase, bg, it, ntk, cands, cmds, hears, ints>>

\* lines 124-125: Popen.send_signal polls first and sends nothing to a child
\* that has exited
SendSigint(t) ==
    /\ At(t, "sigint")
    /\ procs' = [procs EXCEPT ![cur[t]] =
                    IF @.st = "running" THEN [@ EXCEPT !.sigint = TRUE]
                    ELSE [@ EXCEPT !.st = "reaped"]]
    /\ pc' = [pc EXCEPT ![t] = "intwait"]
    /\ UNCHANGED <<aliases, disk, prog, phrase, bg, bm, it, ntk, cands, cur, last,
                   cmds, hears, ints>>

\* lines 124-127: ... or raises, and any Exception of the try leads to line
\* 128: where os.name is "nt" (the platform of lines 132-138) send_signal
\* raises ValueError for SIGINT, elsewhere os.kill can raise an OSError
SendSigintRaises(t) ==
    /\ At(t, "sigint")
    /\ Proc(t).st = "running"
    /\ pc' = [pc EXCEPT ![t] = "kill"]
    /\ UNCHANGED <<aliases, disk, prog, phrase, bg, bm, it, ntk, cands, cur, last,
                   cmds, hears, ints, procs>>

\* line 126: proc.wait(timeout=5) returns the code of a child that has exited
IntWait(t) ==
    /\ At(t, "intwait")
    /\ Proc(t).st # "running"
    /\ ReturnCode(t)
    /\ UNCHANGED <<aliases, disk, prog, phrase, bg, it, ntk, cands, cmds, hears, ints>>

\* lines 126-127: ... or raises TimeoutExpired
IntWaitTimeout(t) ==
    /\ At(t, "intwait")
    /\ Proc(t).st = "running"
    /\ pc' = [pc EXCEPT ![t] = "kill"]
    /\ UNCHANGED <<aliases, disk, prog, phrase, bg, bm, it, ntk, cands, cur, last,
                   cmds, hears, ints, procs>>

\* line 128: proc.kill(); SIGKILL ends a running child at once
Kill(t) ==
    /\ At(t, "kill")
    /\ procs' = [procs EXCEPT ![cur[t]] =
                    IF @.st = "running"
                    THEN [@ EXCEPT !.killed = TRUE, !.st = "exited", !.code = SigKillCode]
                    ELSE [@ EXCEPT !.st = "reaped"]]
    /\ pc' = [pc EXCEPT ![t] = "reap"]
    /\ UNCHANGED <<aliases, disk, prog, phrase, bg, bm, it, ntk, cands, cur, last,
                   cmds, hears, ints>>

\* line 129
Reap(t) ==
    /\ At(t, "reap")
    /\ ReturnCode(t)
    /\ UNCHANGED <<aliases, disk, prog, phrase, bg, it, ntk, cands, cmds, hears, ints>>

\* a try that would hold the detached branch as well: C10 tells it from lines
\* 110-122
InTryOrDetached == {"wait", "join", "report", "bgret"}

\* KeyboardInterrupt, raised in the main thread only. input() catches it
\* (cli.py 33-37), the try of run_script catches it (110-122); anywhere else
\* it leaves handle_run, whose handlers catch Exception only, and repl.
InTry == {"wait", "join", "report"}

Interrupt ==
    /\ Alive
    /\ ints > 0
    /\ ints' = ints - 1
    /\ pc' = [pc EXCEPT !["main"] =
                 IF pc["main"] = "idle" THEN "exited"
                 ELSE IF pc["main"] \in InTry THEN "sigint"
                 ELSE "crashed"]
    /\ procs' = IF cur["main"] # 0 /\ Proc("main").mode = "attached"
                THEN [procs EXCEPT ![cur["main"]].intr = TRUE]
                ELSE procs
    /\ UNCHANGED <<aliases, disk, prog, phrase, bg, bm, it, ntk, cands, cur, last,
                   cmds, hears>>

(***************************************************************************)
(* The child processes and the drain threads (runner.py 92-98)             *)
(***************************************************************************)
Children == 1..Len(procs)

UpdateProc(c, rec) ==
    /\ procs' = [procs EXCEPT ![c] = rec]
    /\ UNCHANGED <<aliases, disk, prog, pc, phrase, bg, bm, it, ntk, cands, cur, last,
                   cmds, hears, ints>>

\* the child writes its next line; it blocks while the pipe is full
ChildWrite(c) ==
    /\ Alive
    /\ procs[c].st = "running"
    /\ procs[c].todo > 0
    /\ Len(procs[c].pipe) < PipeCap
    /\ UpdateProc(c, [procs[c] EXCEPT
            !.pipe = Append(@, procs[c].beh.lines - procs[c].todo + 1),
            !.todo = @ - 1])

\* the child exits on its own
ChildExit(c) ==
    /\ Alive
    /\ procs[c].st = "running"
    /\ procs[c].todo = 0
    /\ procs[c].beh.halts
    /\ UpdateProc(c, [procs[c] EXCEPT !.st = "exited", !.code = procs[c].beh.code])

\* SIGINT ends a child that does not ignore it
ChildSigint(c) ==
    /\ Alive
    /\ procs[c].st = "running"
    /\ procs[c].sigint
    /\ ~procs[c].beh.ignores
    /\ UpdateProc(c, [procs[c] EXCEPT !.st = "exited", !.code = SigIntCode])

\* a drain that starts reading only when the child has exited, as it would
\* after proc.wait() on the same thread: C5 tells it from lines 108-111
DrainReadAfterExit(c) ==
    /\ Alive
    /\ procs[c].drain = "running"
    /\ procs[c].pipe # <<>>
    /\ procs[c].st # "running"
    /\ UpdateProc(c, [procs[c] EXCEPT
            !.emitted = Append(@, Head(procs[c].pipe)),
            !.pipe = Tail(@)])

\* lines 94-97: readline returns a line, which is printed
DrainRead(c) ==
    /\ Alive
    /\ procs[c].drain = "running"
    /\ procs[c].pipe # <<>>
    /\ UpdateProc(c, [procs[c] EXCEPT
            !.emitted = Append(@, Head(procs[c].pipe)),
            !.pipe = Tail(@)])

\* lines 94-98: readline returns "" once the child has exited and the pipe
\* is empty
DrainEof(c) ==
    /\ Alive
    /\ procs[c].drain = "running"
    /\ procs[c].pipe = <<>>
    /\ procs[c].st # "running"
    /\ UpdateProc(c, [procs[c] EXCEPT !.drain = "done"])

(***************************************************************************)
(* The whole program                                                       *)
(***************************************************************************)
\* the commands of the interactive loop
NextCmd ==
    \/ \E p \in MapPhrases, path \in MapPaths : CmdMap(p, path)
    \/ CmdMapUsage
    \/ \E line1 \in PromptPhrases, line2 \in PromptPaths, kind \in PathKinds :
          interactive_map(line1, line2, kind)
    \/ \E p \in UnmapPhrases : CmdUnmap(p)

\* run requests of the interactive loop
NextRun ==
    \/ \E raw \in RunLines : CmdRun(raw)
    \/ Resolve("main")

\* launches, children, drain threads
NextLaunch ==
    \/ \E t \in Threads : Popen(t)
    \/ \E t \in Threads : BgReturn(t)
    \/ \E t \in Threads : StartDrain(t)
    \/ \E t \in Threads : Wait(t)
    \/ \E t \in Threads : Join(t)
    \/ \E t \in Threads : JoinTimeout(t)
    \/ \E t \in Threads : Report(t)
    \/ \E c \in Children : ChildWrite(c)
    \/ \E c \in Children : ChildExit(c)
    \/ \E c \in Children : DrainRead(c)
    \/ \E c \in Children : DrainEof(c)

\* interrupts of the main thread
NextInt ==
    \/ Interrupt
    \/ SendSigint("main")
    \/ SendSigintRaises("main")
    \/ IntWait("main")
    \/ IntWaitTimeout("main")
    \/ Kill("main")
    \/ Reap("main")
    \/ \E c \in Children : ChildSigint(c)

\* the speech worker up to its launches
NextVoice ==
    \/ \E text \in Utterances : VoiceHear(text)
    \/ BmStart
    \/ BmLoop1
    \/ BmLoop2
    \/ BmLoop3

Next == NextCmd \/ NextRun \/ NextLaunch \/ NextInt

\* the program started without --voice
Spec == Init /\ [][Next]_vars

NextSup == NextRun \/ NextLaunch \/ NextInt

\* run requests only, any script
SpecSup == InitSup /\ [][NextSup]_vars

\* the program started with --voice
SpecVoice == InitVoice /\ [][NextCmd \/ NextRun \/ NextLaunch \/ NextVoice]_vars

\* the program started without --voice, no interrupt arrives
InitCmds == InitWith(FALSE, InitDisks, QuickProgs, MaxCmds, 0, 0)

SpecCmds == InitCmds /\ [][NextCmd \/ NextRun \/ NextLaunch]_vars

\* no interrupt arrives
InitFair == InitWith(FALSE, SupDisks, Progs, MaxRuns, 0, 0)

NextFair == NextRun \/ NextLaunch

\* run_script on thread t
LaunchStep(t) ==
    \/ Popen(t) \/ BgReturn(t) \/ StartDrain(t)
    \/ Wait(t) \/ Join(t) \/ JoinTimeout(t) \/ Report(t)

ChildStep(c) == c \in Children /\ (ChildWrite(c) \/ ChildExit(c))

DrainStep(c) == c \in Children /\ (DrainRead(c) \/ DrainEof(c))

\* the operating system schedules the threads of the supervisor, the drain
\* threads and the children: a step of one of them that stays possible is
\* taken. The user may stop typing.
SpecFair ==
    /\ InitFair
    /\ [][NextFair]_vars
    /\ \A t \in Threads : WF_vars(LaunchStep(t))
    /\ \A c \in 1..MaxRuns : WF_vars(ChildStep(c)) /\ WF_vars(DrainStep(c))

(***************************************************************************)
(* best_match alone: any small table read from the store, any phrase of a  *)
(* run request                                                             *)
(***************************************************************************)
MaxKeys == 2        \* phrases in a table whose resolution is examined

MatchKeys == {"backup script", "backup the full script", "Backup", "backup",
              "the", "back", "full run"}

MatchPhrases == {"backup", "Backup", "backup now", "full backup now", "ckup",
                 "the", "zzz", "back up"}

MatchTables ==
    UNION {{d \in [1..n -> [k : MatchKeys, v : ScriptPaths]] :
              \A i, j \in 1..n : i # j => d[i].k # d[j].k} : n \in 0..MaxKeys}

\* runner.py 220-225: handle_run has parsed the phrase and calls best_match
InitMatch ==
    /\ aliases \in MatchTables
    /\ disk = save_config(aliases)
    /\ prog \in QuickProgs
    /\ pc = [t \in Threads |-> IF t = "main" THEN "bm" ELSE "off"]
    /\ \E raw \in MatchPhrases : phrase = [t \in Threads |-> IF t = "main" THEN raw ELSE ""]
    /\ bg = [t \in Threads |-> FALSE]
    /\ bm = [t \in Threads |-> NoMatch]
    /\ it = NoIter
    /\ ntk = <<>>
    /\ cands = <<>>
    /\ cur = [t \in Threads |-> 0]
    /\ last = [t \in Threads |-> "none"]
    /\ procs = <<>>
    /\ cmds = 0
    /\ hears = 0
    /\ ints = 0

NextMatch == Resolve("main")

SpecMatch == InitMatch /\ [][NextMatch]_vars

(***************************************************************************)
(* normalize_phrase as best_match applies it to the keys of the table      *)
(* (line 49): any one-entry table whose key is made of the words and the   *)
(* separators below                                                        *)
(***************************************************************************)
NormWords == {"the", "a", "an", "program", "script", "app",
              "another", "apple", "The", "APP", "then", "run"}

NormSeps == {" ", "  ", "-", ".", "\t", "' "}

NormInputs ==
    {""} \cup NormWords \cup {" " \o w \o " " : w \in NormWords}
         \cup {w1 \o sep \o w2 : w1 \in NormWords, sep \in NormSeps, w2 \in NormWords}

\* the speech worker enters best_match (runner.py 47)
InitNorm ==
    /\ \E x \in NormInputs : aliases = <<Entry(x, "/h/a.py")>>
    /\ disk = save_config(aliases)
    /\ prog \in QuickProgs
    /\ pc = [t \in Threads |-> IF t = "voice" THEN "bm" ELSE "idle"]
    /\ \E raw \in {"run", "zzz"} : phrase = [t \in Threads |-> IF t = "voice" THEN raw ELSE ""]
    /\ bg = [t \in Threads |-> FALSE]
    /\ bm = [t \in Threads |-> NoMatch]
    /\ it = NoIter
    /\ ntk = <<>>
    /\ cands = <<>>
    /\ cur = [t \in Threads |-> 0]
    /\ last = [t \in Threads |-> "none"]
    /\ procs = <<>>
    /\ cmds = 0
    /\ hears = 0
    /\ ints = 0

NextNorm == BmStart \/ BmLoop1 \/ BmLoop2 \/ BmLoop3

SpecNorm == InitNorm /\ [][NextNorm]_vars

(***************************************************************************)
(* Properties                                                              *)
(***************************************************************************)
\* C1: reads and writes of the table exclude each other: while best_match
\* iterates over the table in the speech worker, no step of the interactive
\* loop changes the table.
C1_NoMutationDuringIteration == [][Iterating => aliases' = aliases]_vars

\* handle_run has its answer from best_match
Resolved(t) == pc[t] = "popen" \/ last[t] = "miss"

\* C2: a phrase that is a key of the table resolves to that very key and to
\* the path stored under it, whatever other keys normalize like it.
C2_ExactKeyResolvesToItself ==
    Resolved("main") /\ phrase["main"] \in Keys(aliases)
        => bm["main"] = <<phrase["main"], DictGet(aliases, phrase["main"])>>

\* what the matcher's contract speaks of, for the request of the main thread
NormRaw == normalize_phrase(phrase["main"])

NormKey(i) == normalize_phrase(aliases[i].k)

Overlap(i) == Cardinality(split_set(NormKey(i)) \cap split_set(NormRaw))

SubRel(i) == IsSubstr(NormKey(i), NormRaw) \/ IsSubstr(NormRaw, NormKey(i))

Slots == 1..Len(aliases)

Returned(i) == bm["main"] = <<aliases[i].k, aliases[i].v>>

NoExact == \A i \in Slots : NormKey(i) # NormRaw

\* C7: with no exact normalized match and some phrase sharing a token, the
\* phrase returned has the greatest overlap of all, and the least normalized
\* length among those with that overlap.
C7_MaxOverlapThenShortest ==
    Resolved("main") /\ NoExact /\ (\E i \in Slots : Overlap(i) > 0)
        => \E i \in Slots :
              /\ Returned(i)
              /\ \A j \in Slots : Overlap(j) <= Overlap(i)
              /\ \A j \in Slots : Overlap(j) = Overlap(i) => Len(NormKey(i)) <= Len(NormKey(j))

\* a tie on overlap, the shorter phrase inserted last, and it is returned
C7_Witness ==
    /\ Resolved("main") /\ NoExact
    /\ \E i, j \in Slots :
          /\ j < i
          /\ Overlap(i) > 0 /\ Overlap(i) = Overlap(j)
          /\ Len(NormKey(i)) < Len(NormKey(j))
          /\ Returned(i)

\* C8: the tiers are tried in order, and the last one returns the first
\* phrase in insertion order with the substring relation, none when no phrase
\* has it.
C8_TiersInOrderFirstSubstring ==
    Resolved("main") =>
        /\ ~NoExact => \E i \in Slots : Returned(i) /\ NormKey(i) = NormRaw
        /\ NoExact /\ (\E i \in Slots : Overlap(i) > 0)
              => \E i \in Slots : Returned(i) /\ Overlap(i) > 0
        /\ NoExact /\ (\A i \in Slots : Overlap(i) = 0)
              => IF \E i \in Slots : SubRel(i)
                 THEN \E i \in Slots :
                         Returned(i) /\ SubRel(i) /\ \A j \in 1..(i - 1) : ~SubRel(j)
                 ELSE bm["main"] = NoMatch

\* tiers 1 and 2 found nothing, the second phrase has the relation, the first not
C8_Witness ==
    /\ Resolved("main") /\ NoExact
    /\ \A i \in Slots : Overlap(i) = 0
    /\ Len(aliases) >= 2
    /\ ~SubRel(1) /\ SubRel(2) /\ Returned(2)

\* run_script is over for child c: it returned, or an exception left it
LaunchOver(c) == ~Alive \/ cur[procs[c].owner] # c

Attached(c) == procs[c].mode = "attached"

Detached(c) == procs[c].mode = "detached"

\* the lines child c has written so far
Produced(c) == procs[c].beh.lines - procs[c].todo

\* C3: an attached launch that an interrupt reached after its child was
\* spawned hands a code to its caller, and once the launch is over its child
\* is not running any more.
C3_InterruptedLaunchReturnsAndReaps ==
    \A c \in Children :
        Attached(c) /\ procs[c].intr /\ LaunchOver(c)
            => procs[c].ret # <<>> /\ procs[c].st # "running"

\* C4: the lines of an attached launch are emitted in the order the child
\* wrote them, and all of them before the launch hands the code to its caller.
C4_OutputInOrderAndFlushedBeforeCode ==
    \A c \in Children :
        Attached(c) =>
            /\ procs[c].emitted = [i \in 1..Len(procs[c].emitted) |-> i]
            /\ procs[c].ret # <<>> => Len(procs[c].emitted) = Produced(c)

\* C5: an attached launch of a child that writes its lines and exits returns
\* that child's exit code, however many lines the pipe holds.
C5_AttachedLaunchReturnsExitCode ==
    \A c \in 1..MaxRuns :
        (c \in Children /\ Attached(c) /\ procs[c].beh.halts)
            ~> (c \in Children /\ procs[c].ret = <<procs[c].beh.code>>)

\* a child that wrote more lines than the pipe holds, all of them emitted, its
\* exit code returned
C5_Witness ==
    \E c \in Children :
        /\ Attached(c) /\ procs[c].beh.halts
        /\ procs[c].beh.lines > PipeCap
        /\ Len(procs[c].emitted) = procs[c].beh.lines
        /\ procs[c].ret = <<procs[c].beh.code>>

\* C6: a child is spawned only for a path that is a regular file at the
\* moment of the launch.
C6_NoChildUnlessRegularFile == \A c \in Children : procs[c].kind = "file"

\* C9: a run request that fails leaves both loops running: the interactive
\* loop was not left by an exception, nor was the loop of the speech worker.
C9_LoopsSurviveFailedRequest == pc["main"] # "crashed" /\ pc["voice"] # "dead"

\* C10: a detached child is never drained, signalled, killed or waited for,
\* and its launch hands the pid to the caller in the step after the spawn,
\* whatever the child does.
C10_DetachedIsFireAndForget ==
    \A c \in Children :
        Detached(c) =>
            /\ procs[c].drain = "none" /\ procs[c].emitted = <<>>
            /\ ~procs[c].sigint /\ ~procs[c].killed /\ ~procs[c].intr
            /\ procs[c].st # "reaped"
            /\ procs[c].ret \in {<<>>, <<c>>}
            /\ procs[c].ret = <<>> /\ Alive
                  => /\ pc[procs[c].owner] = "bgret" /\ cur[procs[c].owner] = c
                     /\ ENABLED BgReturn(procs[c].owner)

\* a detached child that never exits, blocked on the pipe nobody reads, its
\* pid returned long ago, still running when an interrupt ends the supervisor
C10_Witness ==
    \E c \in Children :
        /\ Detached(c) /\ ~procs[c].beh.halts
        /\ procs[c].todo > 0 /\ Len(procs[c].pipe) = PipeCap
        /\ procs[c].ret = <<c>> /\ procs[c].st = "running"
        /\ pc["main"] = "exited"

\* C11: an attached launch that handed a code to its caller without killing
\* the child, on the normal path and after an interrupt the child obeyed
\* alike, has announced that code: success for 0, failure otherwise, and the
\* code handed over is the child's exit code.
C11_EndedLaunchAnnouncesCode ==
    \A c \in Children :
        Attached(c) /\ procs[c].ret # <<>> /\ ~procs[c].killed
            => /\ procs[c].ret = <<procs[c].code>>
               /\ procs[c].rep = IF procs[c].code = 0 THEN "ok" ELSE "err"

\* the kinds ensure_python_script refuses
NotAFile == {"missing", "nodir", "dir"}

\* C12: a map command, typed with its arguments or at the prompts, whose path
\* is missing or is a directory leaves the table and the store as they were:
\* nothing is registered and nothing is saved. (A step changes neither, or
\* it is no such command.)
C12_RejectedMapChangesNothing ==
    [][\/ aliases' = aliases /\ disk' = disk
       \/ \A kind \in NotAFile :
             /\ \A p \in MapPhrases, path \in MapPaths : ~CmdMapKind(p, path, kind)
             /\ \A line1 \in PromptPhrases \ {""}, line2 \in PromptPaths \ {""} :
                   ~interactive_map(line1, line2, kind)]_vars

\* a map was refused and the store is still what startup found, an
\* unparsable file or no file: nothing was saved
C12_Witness ==
    /\ last["main"] = "maperr"
    /\ disk.st \in {"corrupt", "absent"}

\* e is table d without its entry for key: the other entries as they were,
\* in their order
Without(d, key, e) ==
    \E i \in 1..Len(d) :
       /\ d[i].k = key
       /\ Len(e) = Len(d) - 1
       /\ \A j \in 1..(i - 1) : e[j] = d[j]
       /\ \A j \in (i + 1)..Len(d) : e[j - 1] = d[j]

\* C13: unmap of a phrase that is a key removes that entry and no other,
\* whatever the matcher would answer; unmap of a phrase that is no key removes
\* the entry the matcher resolves it to; with no key and no match the table
\* and the store stay as they were and a warning is reported.
C13_UnmapRemovesAtMostOne ==
    [][\A p \in UnmapPhrases :
          last'["main"] \in {"unmapped", "unmapmiss"} /\ CmdUnmap(p) =>
          IF p \in Keys(aliases)
          THEN Without(aliases, p, aliases') /\ disk' = save_config(aliases')
          ELSE IF best_match(aliases, p) # NoMatch
          THEN /\ Without(aliases, best_match(aliases, p)[1], aliases')
               /\ disk' = save_config(aliases')
          ELSE aliases' = aliases /\ disk' = disk /\ last'["main"] = "unmapmiss"]_vars

\* an unmap has removed an entry and saved the table: "Backup", the key
\* that normalizes like "backup", is the one entry left
C13_Witness ==
    /\ last["main"] = "unmapped"
    /\ Keys(aliases) = {"Backup"}
    /\ disk = save_config(aliases)

\* the words of s: its maximal runs of word characters, in order
RECURSIVE WordsOf(_)
WordsOf(s) ==
    IF s = "" THEN <<>>
    ELSE IF IsWordChar(Ch(s, 1))
    THEN LET e == WordRunEnd(s, 1)
         IN <<SubSeq(s, 1, e - 1)>> \o WordsOf(SubSeq(s, e, Len(s)))
    ELSE WordsOf(Tail(s))

\* the characters of s that are neither word characters nor whitespace
RECURSIVE PunctOf(_)
PunctOf(s) ==
    IF s = "" THEN ""
    ELSE (IF IsWordChar(Ch(s, 1)) \/ IsSpace(Ch(s, 1)) THEN "" ELSE Ch(s, 1))
         \o PunctOf(Tail(s))

IsKept(w) == w \notin Articles \cup Fillers

\* C14: normalize is defined on every input and idempotent, and it removes
\* whole words only: each normalized form n that best_match computed for a
\* key k is its own normalized form, its words are the words of the lowercased
\* k without the six filler words, and k's other characters are all there.
C14_NormalizeIdempotentWholeWords ==
    \A n \in DOMAIN ntk :
        /\ normalize_phrase(n) = n
        /\ WordsOf(n) = SelectSeq(WordsOf(lower(ntk[n])), IsKept)
        /\ PunctOf(n) = PunctOf(ntk[n])

\* "app" went as a whole word, the "an" and the "the" inside "another" stayed
C14_Witness == "another" \in DOMAIN ntk /\ ntk["another"] = "another  app"

\* C15: a run request changes neither the table nor the store, from the
\* line typed to the end of its launch, whether it matched or not, was
\* launched or failed, attached or detached (a step changes neither, or it
\* reads a command that is no run request); and a request the matcher
\* answers with none launches nothing and is over.
C15_RunLeavesTableAlone ==
    [][/\ \/ aliases' = aliases /\ disk' = disk
          \/ cmds' # cmds /\ \A raw \in RunLines : ~CmdRun(raw)
       /\ \A t \in Threads :
             pc[t] = "bm" /\ pc'[t] # "bm" /\ bm'[t] = NoMatch
                => procs' = procs /\ pc'[t] = "idle" /\ last'[t] = "miss"]_vars

\* a detached run was launched from a table of two entries: the table and
\* the store are the two entries in their order
C15_Witness ==
    /\ last["main"] = "bg"
    /\ procs # <<>>
    /\ aliases = <<Entry("Backup", "/h/a.py"), Entry("backup", "/h/b.py")>>
    /\ disk = save_config(aliases)

\* C16: the child of an attached launch is killed only after the interrupt
\* was forwarded to it (and the wait that follows ran out).
C16_KillOnlyAfterForwardedInterrupt ==
    \A c \in Children : procs[c].killed => procs[c].sigint

\* C17: the keys of the table are pairwise different and no key maps to the
\* empty path, from the load of the store on.
C17_KeysUniqueNoEmptyPath ==
    /\ \A i, j \in Slots : i # j => aliases[i].k # aliases[j].k
    /\ \A i \in Slots : aliases[i].v # ""

\* what follows the first word "run" of an utterance, trimmed
AfterRun(text) ==
    LET starts == {i \in 1..Len(text) : voice_group_at(text, i) # ""}
    IN IF starts = {} THEN ""
       ELSE strip(voice_group_at(text, CHOOSE j \in starts : \A h \in starts : j <= h))

\* the last word of s: what follows its last whitespace
RECURSIVE LastWord(_)
LastWord(s) ==
    IF s = "" \/ IsSpace(Ch(s, Len(s))) THEN ""
    ELSE LastWord(SubSeq(s, 1, Len(s) - 1)) \o Ch(s, Len(s))

\* C18: an utterance is run detached exactly when the last word after "run"
\* is "and", "ampersand" or "background", and then the phrase is the rest
\* without that word; otherwise it is run attached with the phrase as heard.
C18_DetachedIffTrailingFillerWord ==
    [][\A text \in Utterances :
          hears' # hears /\ VoiceHear(text) /\ pc'["voice"] = "bm"
             => LET after == AfterRun(text)
                    w == LastWord(after)
                IN IF w \in VoiceSuffixes
                   THEN bg'["voice"] /\ phrase'["voice"] = strip(removesuffix(after, w))
                   ELSE ~bg'["voice"] /\ phrase'["voice"] = after]_vars

\* some key of the table normalizes to the empty string
EmptyKey == \E i \in Slots : NormKey(i) = ""

\* C19: on a table that is not empty, a phrase that normalizes to the empty
\* string resolves to a key that normalizes to the empty string when there is
\* one and to the first key of the table otherwise; and while some key
\* normalizes to the empty string no phrase at all resolves to none.
C19_EmptyNormalFormAlwaysResolves ==
    Resolved("main") /\ aliases # <<>> =>
        /\ NormRaw = "" =>
              IF EmptyKey THEN \E i \in Slots : Returned(i) /\ NormKey(i) = ""
              ELSE Returned(1)
        /\ EmptyKey => bm["main"] # NoMatch

\* "the" was resolved on a table of two keys, none of which normalizes to the
\* empty string: the answer is the first key
C19_Witness ==
    /\ Resolved("main")
    /\ phrase["main"] = "the"
    /\ Len(aliases) = 2 /\ ~EmptyKey
    /\ Returned(1) /\ ~Returned(2)

====
